---- MODULE Spec2Model ----
(***************************************************************************)
(* Model of preprocessing.py (HW2, EM algorithm): the corpus reader        *)
(* extract_sentences, the vocabulary builder get_token_to_index and the    *)
(* tokenizer tokenize_sents.                                               *)
(*                                                                         *)
(* Characters are one-character strings and a text is a sequence of        *)
(* characters, so that escaping, entity decoding, whitespace splitting     *)
(* and integer parsing are computed character by character.                *)
(***************************************************************************)
EXTENDS Integers, Sequences, FiniteSets, TLC

VARIABLES
    pc,                 \* position of the running function
    file,               \* the corpus file: the sentence elements of the root, raw
    items,              \* number of lexical items written to the file / corpus
    open,               \* index of the field the writer of the file has open
    root,               \* the element tree ET.fromstring returned
    i,                  \* number of elements / pairs the running loop has consumed
    sentence_pairs,     \* list of SentencePair
    alignments,         \* list of LabeledAlignment
    err,                \* the exception that ended the function, or "none"
    freq_cutoff,        \* argument of get_token_to_index
    source_dict,        \* token -> index, source language
    target_dict,        \* token -> index, target language
    tokenized_sentence_pairs  \* list of TokenizedSentencePair

vars == <<pc, file, items, open, root, i, sentence_pairs, alignments, err,
          freq_cutoff, source_dict, target_dict, tokenized_sentence_pairs>>

(***************************************************************************)
(* Bounds of the model.                                                    *)
(***************************************************************************)
MaxFileItems == 6
MaxCorpusItems == 6
MaxTokItems == 7
MaxCutoff == 3

(***************************************************************************)
(* Generic sequence helpers.                                               *)
(***************************************************************************)
RECURSIVE Concat(_)
Concat(ss) == IF ss = <<>> THEN <<>> ELSE Head(ss) \o Concat(Tail(ss))

Range(s) == {s[k] : k \in 1..Len(s)}

StartsWith(s, p) == Len(s) >= Len(p) /\ SubSeq(s, 1, Len(p)) = p

(***************************************************************************)
(* The data model (lines 8-33).                                            *)
(***************************************************************************)
SentencePair(src, tgt) == [source |-> src, target |-> tgt]

TokenizedSentencePair(src, tgt) == [source_tokens |-> src, target_tokens |-> tgt]

LabeledAlignment(s, p) == [sure |-> s, possible |-> p]

(***************************************************************************)
(* The corpus file.  A sentence element holds four optional fields; a      *)
(* field that is present holds its raw character data as written in the    *)
(* file, before any escaping or decoding.                                  *)
(***************************************************************************)
FieldNames == <<"english", "czech", "sure", "possible">>

AbsentField == [present |-> FALSE, raw |-> <<>>]

EmptyElement == [english |-> AbsentField, czech |-> AbsentField,
                 sure |-> AbsentField, possible |-> AbsentField]

AmpEsc == <<"&", "a", "m", "p", ";">>

LtEsc == <<"&", "l", "t", ";">>

\* Pieces a text field of the file is written from.
TextChunks == {<<"&">>, AmpEsc, LtEsc, <<" ">>, <<"a">>}

\* Pieces an alignment field of the file is written from.
AlignChunks == {<<"1", "-", "2">>, <<"0", "-", "1">>, <<"5">>, <<"-", "3">>,
                <<"x">>, <<" ">>}

ChunksOf(f) == IF f <= 2 THEN TextChunks ELSE AlignChunks

(***************************************************************************)
(* extract_sentences, lines 47-51: the pre-pass and the structural parse.  *)
(***************************************************************************)
\* str.replace('&', '&amp;') on one run of character data: every ampersand,
\* whatever follows it, is replaced.
RECURSIVE Replace(_)
Replace(s) ==
    IF s = <<>> THEN <<>>
    ELSE IF Head(s) = "&" THEN AmpEsc \o Replace(Tail(s))
    ELSE <<Head(s)>> \o Replace(Tail(s))

\* content.replace('&', '&amp;') on the file: the markup itself holds no
\* ampersand, so the replacement acts on the character data of the fields.
ReplaceField(fld) == [present |-> fld.present, raw |-> Replace(fld.raw)]

ReplaceContent(content) ==
    [k \in 1..Len(content) |->
        [english |-> ReplaceField(content[k].english),
         czech |-> ReplaceField(content[k].czech),
         sure |-> ReplaceField(content[k].sure),
         possible |-> ReplaceField(content[k].possible)]]

\* The predefined entities of XML: name and the character each denotes.
Entities == {[name |-> <<"a", "m", "p">>, char |-> "&"],
             [name |-> <<"l", "t">>, char |-> "<"],
             [name |-> <<"g", "t">>, char |-> ">"]}

EntityAt(s) == {e \in Entities : StartsWith(s, <<"&">> \o e.name \o <<";">>)}

\* The parser's decoding of character data: a reference stands for its
\* character, an ampersand that starts no reference is not well-formed.
RECURSIVE XmlUnescape(_)
XmlUnescape(s) ==
    IF s = <<>> THEN [ok |-> TRUE, text |-> <<>>]
    ELSE IF Head(s) = "&"
    THEN IF EntityAt(s) = {} THEN [ok |-> FALSE, text |-> <<>>]
         ELSE LET e == CHOOSE x \in EntityAt(s) : TRUE
                  rest == XmlUnescape(SubSeq(s, Len(e.name) + 3, Len(s)))
              IN  [ok |-> rest.ok, text |-> <<e.char>> \o rest.text]
    ELSE LET rest == XmlUnescape(Tail(s))
         IN  [ok |-> rest.ok, text |-> <<Head(s)>> \o rest.text]

\* One sub-element as s.find() and .text give it: None when the element is
\* missing, and a text of None when the element holds no character data.
ParseField(fld) ==
    LET u == XmlUnescape(fld.raw)
    IN  [ok |-> (~fld.present) \/ u.ok,
         node |-> [isNone |-> ~fld.present,
                   textIsNone |-> (~fld.present) \/ u.text = <<>>,
                   text |-> IF fld.present THEN u.text ELSE <<>>]]

ParseElement(e) ==
    LET en == ParseField(e.english)
        cz == ParseField(e.czech)
        su == ParseField(e.sure)
        po == ParseField(e.possible)
    IN  [ok |-> en.ok /\ cz.ok /\ su.ok /\ po.ok,
         node |-> [english |-> en.node, czech |-> cz.node,
                   sure |-> su.node, possible |-> po.node]]

\* ET.fromstring(content) followed by root.findall('s').
FromString(content) ==
    [ok |-> \A k \in 1..Len(content) : ParseElement(content[k]).ok,
     root |-> [k \in 1..Len(content) |-> ParseElement(content[k]).node]]

(***************************************************************************)
(* extract_sentences, lines 62-71: the fields of one sentence element.     *)
(***************************************************************************)
IsSpace(c) == c \in {" ", "\t", "\n"}

RECURSIVE LStrip(_)
LStrip(s) == IF s # <<>> /\ IsSpace(Head(s)) THEN LStrip(Tail(s)) ELSE s

RECURSIVE RStrip(_)
RStrip(s) ==
    IF s # <<>> /\ IsSpace(s[Len(s)]) THEN RStrip(SubSeq(s, 1, Len(s) - 1)) ELSE s

\* str.strip()
Strip(s) == RStrip(LStrip(s))

\* str.split(): the maximal runs of non-whitespace characters, in order.
RECURSIVE SplitFrom(_, _)
SplitFrom(s, cur) ==
    IF s = <<>> THEN (IF cur = <<>> THEN <<>> ELSE <<cur>>)
    ELSE IF IsSpace(Head(s))
    THEN (IF cur = <<>> THEN <<>> ELSE <<cur>>) \o SplitFrom(Tail(s), <<>>)
    ELSE SplitFrom(Tail(s), Append(cur, Head(s)))

Split(s) == SplitFrom(s, <<>>)

\* str.split('-'): the pieces between hyphens, empty pieces kept.
RECURSIVE SplitHyphenFrom(_, _)
SplitHyphenFrom(s, cur) ==
    IF s = <<>> THEN <<cur>>
    ELSE IF Head(s) = "-" THEN <<cur>> \o SplitHyphenFrom(Tail(s), <<>>)
    ELSE SplitHyphenFrom(Tail(s), Append(cur, Head(s)))

SplitHyphen(s) == SplitHyphenFrom(s, <<>>)

Digits == <<"0", "1", "2", "3", "4", "5", "6", "7", "8", "9">>

IsDigit(c) == \E d \in 1..10 : Digits[d] = c

DigitVal(c) == (CHOOSE d \in 1..10 : Digits[d] = c) - 1

RECURSIVE IntVal(_, _)
IntVal(s, acc) ==
    IF s = <<>> THEN acc ELSE IntVal(Tail(s), 10 * acc + DigitVal(Head(s)))

\* int(part): a decimal literal gives its value, anything else ValueError.
ParseInt(part) ==
    IF part # <<>> /\ \A k \in 1..Len(part) : IsDigit(part[k])
    THEN [ok |-> TRUE, val |-> IntVal(part, 0)]
    ELSE [ok |-> FALSE, val |-> 0]

\* tuple(map(int, pair.split('-')))
ParsePair(pair) ==
    LET parts == SplitHyphen(pair)
    IN  [ok |-> \A k \in 1..Len(parts) : ParseInt(parts[k]).ok,
         tuple |-> [k \in 1..Len(parts) |-> ParseInt(parts[k]).val]]

\* [tuple(map(int, pair.split('-'))) for pair in text.strip().split()]
ParseAlignments(text) ==
    LET pairs == Split(Strip(text))
    IN  [ok |-> \A k \in 1..Len(pairs) : ParsePair(pairs[k]).ok,
         tuples |-> [k \in 1..Len(pairs) |-> ParsePair(pairs[k]).tuple]]

\* lines 62-63: x.text.strip().split() if x is not None else []
\* (a text of None has no strip: AttributeError)
TextTokens(node) ==
    IF node.isNone THEN [ok |-> TRUE, tokens |-> <<>>]
    ELSE IF node.textIsNone THEN [ok |-> FALSE, tokens |-> <<>>]
    ELSE [ok |-> TRUE, tokens |-> Split(Strip(node.text))]

\* lines 65-71: the list stays empty unless the field is there with a text
FieldAlignments(node) ==
    IF (~node.isNone) /\ (~node.textIsNone) /\ node.text # <<>>
    THEN ParseAlignments(node.text)
    ELSE [ok |-> TRUE, tuples |-> <<>>]

\* lines 76-77
AppendPair(pairs, pair) == Append(pairs, pair)

AppendAlignmentIfAny(als, al) ==
    IF al.sure = <<>> /\ al.possible = <<>> THEN als ELSE Append(als, al)

AppendAlignment(als, al) == Append(als, al)

(***************************************************************************)
(* The writer of the corpus file (the environment of extract_sentences).   *)
(* The file grows by one lexical item at a time: a new sentence element,   *)
(* a new field of the last element (fields in document order), or one      *)
(* more piece of character data in the field that is open.                 *)
(***************************************************************************)
WriteSentence ==
    /\ pc = "write"
    /\ items < MaxFileItems
    /\ file' = Append(file, EmptyElement)
    /\ open' = 0
    /\ items' = items + 1
    /\ UNCHANGED <<pc, root, i, sentence_pairs, alignments, err, freq_cutoff,
                   source_dict, target_dict, tokenized_sentence_pairs>>

WriteField ==
    /\ pc = "write"
    /\ items < MaxFileItems
    /\ file # <<>>
    /\ \E f \in (open + 1)..4 :
        /\ file' = [file EXCEPT ![Len(file)][FieldNames[f]] =
                        [present |-> TRUE, raw |-> <<>>]]
        /\ open' = f
    /\ items' = items + 1
    /\ UNCHANGED <<pc, root, i, sentence_pairs, alignments, err, freq_cutoff,
                   source_dict, target_dict, tokenized_sentence_pairs>>

WriteChunk ==
    /\ pc = "write"
    /\ items < MaxFileItems
    /\ open > 0
    /\ \E c \in ChunksOf(open) :
        file' = [file EXCEPT ![Len(file)][FieldNames[open]].raw = @ \o c]
    /\ items' = items + 1
    /\ UNCHANGED <<pc, open, root, i, sentence_pairs, alignments, err,
                   freq_cutoff, source_dict, target_dict, tokenized_sentence_pairs>>

(***************************************************************************)
(* extract_sentences.                                                      *)
(***************************************************************************)
\* lines 47-54: read, escape, parse; ParseError when the parse fails
ReadAndParse ==
    /\ pc = "write"
    /\ LET content == ReplaceContent(file)
           parsed == FromString(content)
       IN  IF parsed.ok
           THEN /\ root' = parsed.root
                /\ pc' = "loop"
                /\ err' = "none"
           ELSE /\ root' = <<>>
                /\ pc' = "error"
                /\ err' = "ParseError"
    /\ i' = 0
    /\ sentence_pairs' = <<>>
    /\ alignments' = <<>>
    /\ UNCHANGED <<file, items, open, freq_cutoff, source_dict, target_dict,
                   tokenized_sentence_pairs>>

\* lines 56-77: one iteration of the loop over the sentence elements
LoopBody ==
    /\ pc = "loop"
    /\ i < Len(root)
    /\ LET s == root[i + 1]
           english_text == TextTokens(s.english)
           czech_text == TextTokens(s.czech)
           sure_alignments == FieldAlignments(s.sure)
           possible_alignments == FieldAlignments(s.possible)
       IN  IF ~(english_text.ok /\ czech_text.ok)
           THEN /\ pc' = "error"
                /\ err' = "AttributeError"
                /\ UNCHANGED <<i, sentence_pairs, alignments>>
           ELSE IF ~(sure_alignments.ok /\ possible_alignments.ok)
           THEN /\ pc' = "error"
                /\ err' = "ValueError"
                /\ UNCHANGED <<i, sentence_pairs, alignments>>
           ELSE /\ sentence_pairs' = AppendPair(sentence_pairs,
                        SentencePair(english_text.tokens, czech_text.tokens))
                /\ alignments' = AppendAlignment(alignments,
                        LabeledAlignment(sure_alignments.tuples,
                                         possible_alignments.tuples))
                /\ i' = i + 1
                /\ UNCHANGED <<pc, err>>
    /\ UNCHANGED <<file, items, open, root, freq_cutoff, source_dict,
                   target_dict, tokenized_sentence_pairs>>

\* line 79
ReturnSentences ==
    /\ pc = "loop"
    /\ i = Len(root)
    /\ pc' = "returned"
    /\ UNCHANGED <<file, items, open, root, i, sentence_pairs, alignments, err,
                   freq_cutoff, source_dict, target_dict, tokenized_sentence_pairs>>

NoCutoff == [given |-> FALSE, n |-> 0]

EmptyDict == [t \in {} |-> 0]

InitReader ==
    /\ pc = "write"
    /\ file = <<>>
    /\ items = 0
    /\ open = 0
    /\ root = <<>>
    /\ i = 0
    /\ sentence_pairs = <<>>
    /\ alignments = <<>>
    /\ err = "none"
    /\ freq_cutoff = NoCutoff
    /\ source_dict = EmptyDict
    /\ target_dict = EmptyDict
    /\ tokenized_sentence_pairs = <<>>

NextReader ==
    \/ WriteSentence
    \/ WriteField
    \/ WriteChunk
    \/ ReadAndParse
    \/ LoopBody
    \/ ReturnSentences

SpecReader == InitReader /\ [][NextReader]_vars

(***************************************************************************)
(* The caller's corpus: the sentence pairs handed to get_token_to_index    *)
(* and tokenize_sents.  It grows by one item at a time: a new pair, or one *)
(* more token on a side of the last pair.                                  *)
(***************************************************************************)
Tokens == {"a", "b", "c"}

AddPair(bound) ==
    /\ pc = "corpus"
    /\ items < bound
    /\ sentence_pairs' = Append(sentence_pairs, SentencePair(<<>>, <<>>))
    /\ items' = items + 1
    /\ UNCHANGED <<pc, file, open, root, i, alignments, err, freq_cutoff,
                   source_dict, target_dict, tokenized_sentence_pairs>>

AddSourceToken(alphabet, bound) ==
    /\ pc = "corpus"
    /\ items < bound
    /\ sentence_pairs # <<>>
    /\ \E t \in alphabet :
        sentence_pairs' =
            [sentence_pairs EXCEPT ![Len(sentence_pairs)].source = Append(@, t)]
    /\ items' = items + 1
    /\ UNCHANGED <<pc, file, open, root, i, alignments, err, freq_cutoff,
                   source_dict, target_dict, tokenized_sentence_pairs>>

AddTargetToken(alphabet, bound) ==
    /\ pc = "corpus"
    /\ items < bound
    /\ sentence_pairs # <<>>
    /\ \E t \in alphabet :
        sentence_pairs' =
            [sentence_pairs EXCEPT ![Len(sentence_pairs)].target = Append(@, t)]
    /\ items' = items + 1
    /\ UNCHANGED <<pc, file, open, root, i, alignments, err, freq_cutoff,
                   source_dict, target_dict, tokenized_sentence_pairs>>

(***************************************************************************)
(* get_token_to_index, lines 94-115.                                       *)
(***************************************************************************)
\* lines 94-99: the token lists of the two sides, pair after pair
SourceTokens(pairs) == Concat([k \in 1..Len(pairs) |-> pairs[k].source])

TargetTokens(pairs) == Concat([k \in 1..Len(pairs) |-> pairs[k].target])

\* Counter(tokens)[t]
Counted(tokens, t) == Cardinality({k \in 1..Len(tokens) : tokens[k] = t})

\* Counter(tokens).keys(): the distinct tokens, in order of first occurrence
RECURSIVE CounterKeys(_)
CounterKeys(tokens) ==
    IF tokens = <<>> THEN <<>>
    ELSE LET init == CounterKeys(SubSeq(tokens, 1, Len(tokens) - 1))
             t == tokens[Len(tokens)]
         IN  IF t \in Range(init) THEN init ELSE Append(init, t)

\* One step of the stable sort: key t goes behind every key already placed
\* whose count is at least its own.
InsertByCountReversedTies(sorted, t, tokens) ==
    LET n == Cardinality({k \in 1..Len(sorted) :
                            Counted(tokens, sorted[k]) > Counted(tokens, t)})
    IN  SubSeq(sorted, 1, n) \o <<t>> \o SubSeq(sorted, n + 1, Len(sorted))

InsertByCountAscending(sorted, t, tokens) ==
    LET n == Cardinality({k \in 1..Len(sorted) :
                            Counted(tokens, sorted[k]) <= Counted(tokens, t)})
    IN  SubSeq(sorted, 1, n) \o <<t>> \o SubSeq(sorted, n + 1, Len(sorted))

InsertByCount(sorted, t, tokens) ==
    LET n == Cardinality({k \in 1..Len(sorted) :
                            Counted(tokens, sorted[k]) >= Counted(tokens, t)})
    IN  SubSeq(sorted, 1, n) \o <<t>> \o SubSeq(sorted, n + 1, Len(sorted))

\* sorted(keys, key=lambda x: counted[x], reverse=True): stable, so keys of
\* equal count keep the order they have in keys
RECURSIVE SortedByCount(_, _)
SortedByCount(keys, tokens) ==
    IF keys = <<>> THEN <<>>
    ELSE InsertByCount(SortedByCount(SubSeq(keys, 1, Len(keys) - 1), tokens),
                       keys[Len(keys)], tokens)

Min(a, b) == IF a <= b THEN a ELSE b

\* lines 108-110: sorted_tokens[:freq_cutoff] when freq_cutoff is not None
CutOff(sorted, cutoff) ==
    IF cutoff.given THEN SubSeq(sorted, 1, Min(cutoff.n, Len(sorted)))
    ELSE sorted

EnumerateFromOne(sorted) ==
    [t \in Range(sorted) |-> CHOOSE k \in 1..Len(sorted) : sorted[k] = t]

\* lines 112-113: {token: i for i, token in enumerate(sorted_tokens)}
Enumerate(sorted) ==
    [t \in Range(sorted) |-> (CHOOSE k \in 1..Len(sorted) : sorted[k] = t) - 1]

TokenToIndex(tokens, cutoff) ==
    Enumerate(CutOff(SortedByCount(CounterKeys(tokens), tokens), cutoff))

Cutoffs == {NoCutoff} \cup {[given |-> TRUE, n |-> n] : n \in 1..MaxCutoff}

GetTokenToIndex ==
    /\ pc = "corpus"
    /\ \E cutoff \in Cutoffs :
        /\ freq_cutoff' = cutoff
        /\ source_dict' = TokenToIndex(SourceTokens(sentence_pairs), cutoff)
        /\ target_dict' = TokenToIndex(TargetTokens(sentence_pairs), cutoff)
    /\ pc' = "vocab"
    /\ UNCHANGED <<file, items, open, root, i, sentence_pairs, alignments, err,
                   tokenized_sentence_pairs>>

InitVocab ==
    /\ pc = "corpus"
    /\ file = <<>>
    /\ items = 0
    /\ open = 0
    /\ root = <<>>
    /\ i = 0
    /\ sentence_pairs = <<>>
    /\ alignments = <<>>
    /\ err = "none"
    /\ freq_cutoff = NoCutoff
    /\ source_dict = EmptyDict
    /\ target_dict = EmptyDict
    /\ tokenized_sentence_pairs = <<>>

NextVocab ==
    \/ AddPair(MaxCorpusItems)
    \/ AddSourceToken(Tokens, MaxCorpusItems)
    \/ AddTargetToken(Tokens, MaxCorpusItems)
    \/ GetTokenToIndex

SpecVocab == InitVocab /\ [][NextVocab]_vars

(***************************************************************************)
(* tokenize_sents, lines 132-143.                                          *)
(***************************************************************************)
\* Tokens of the corpora handed to tokenize_sents, and the vocabulary maps:
\* any map from some of the tokens to indices, injective or not.
TokTokens == {"a", "b"}

TokIndices == {0, 1}

Dicts == UNION {[keys -> TokIndices] : keys \in SUBSET TokTokens}

RECURSIVE Indices(_, _)

IndicesOfDistinct(side, d) ==
    LET known == SelectSeq(CounterKeys(side), LAMBDA t : t \in DOMAIN d)
    IN  [q \in 1..Len(known) |-> d[known[q]]]

\* lines 134-135: [d[token] for token in side if token in d]
Indices(side, d) ==
    IF side = <<>> THEN <<>>
    ELSE IF Head(side) \in DOMAIN d
    THEN <<d[Head(side)]>> \o Indices(Tail(side), d)
    ELSE Indices(Tail(side), d)

SkippedWhenBothEmpty(source_indices, target_indices) ==
    Len(source_indices) = 0 /\ Len(target_indices) = 0

\* line 137: the pair is skipped
Skipped(source_indices, target_indices) ==
    Len(source_indices) = 0 \/ Len(target_indices) = 0

\* lines 133-142: the loop body, on the list built so far
LoopStep(result, pair, sd, td) ==
    LET source_indices == Indices(pair.source, sd)
        target_indices == Indices(pair.target, td)
    IN  IF Skipped(source_indices, target_indices) THEN result
        ELSE Append(result, TokenizedSentencePair(source_indices, target_indices))

\* lines 132-143: the loop over the first n pairs
RECURSIVE TokenizeFirst(_, _, _, _)
TokenizeFirst(pairs, n, sd, td) ==
    IF n = 0 THEN <<>>
    ELSE LoopStep(TokenizeFirst(pairs, n - 1, sd, td), pairs[n], sd, td)

TokenizeSents ==
    /\ pc = "corpus"
    /\ \E sd \in Dicts, td \in Dicts :
        /\ source_dict' = sd
        /\ target_dict' = td
        /\ tokenized_sentence_pairs' =
                TokenizeFirst(sentence_pairs, Len(sentence_pairs), sd, td)
    /\ pc' = "tokenized"
    /\ UNCHANGED <<file, items, open, root, i, sentence_pairs, alignments, err,
                   freq_cutoff>>

InitTok == InitVocab

NextTok ==
    \/ AddPair(MaxTokItems)
    \/ AddSourceToken(TokTokens, MaxTokItems)
    \/ AddTargetToken(TokTokens, MaxTokItems)
    \/ TokenizeSents

SpecTok == InitTok /\ [][NextTok]_vars

(***************************************************************************)
(* Properties of tokenize_sents (checked under SpecTok).                   *)
(***************************************************************************)
Known(side, d) == SelectSeq(side, LAMBDA t : t \in DOMAIN d)

\* The pairs that keep a token on both sides, by position in the input.
KeptPositions ==
    {k \in 1..Len(sentence_pairs) :
        /\ \E q \in 1..Len(sentence_pairs[k].source) :
                sentence_pairs[k].source[q] \in DOMAIN source_dict
        /\ \E q \in 1..Len(sentence_pairs[k].target) :
                sentence_pairs[k].target[q] \in DOMAIN target_dict}

\* The position in the input of the m-th pair that is kept.
NthKept(m) ==
    CHOOSE k \in KeptPositions :
        Cardinality({j \in KeptPositions : j < k}) = m - 1

ExpectedIndices(side, d) ==
    LET known == Known(side, d) IN [q \in 1..Len(known) |-> d[known[q]]]

\* C1: the output of tokenize_sents is the input with exactly the pairs
\* removed that have no token of source_dict on the source side or no token of
\* target_dict on the target side; the pairs that stay keep their relative
\* order, so the output is never longer than the input.
C1_KeptPairsInOrder ==
    pc = "tokenized" =>
        /\ Len(tokenized_sentence_pairs) = Cardinality(KeptPositions)
        /\ Len(tokenized_sentence_pairs) <= Len(sentence_pairs)
        /\ \A m \in 1..Len(tokenized_sentence_pairs) :
              tokenized_sentence_pairs[m] =
                 TokenizedSentencePair(
                    ExpectedIndices(sentence_pairs[NthKept(m)].source, source_dict),
                    ExpectedIndices(sentence_pairs[NthKept(m)].target, target_dict))

\* A pair is dropped between two pairs that are kept and that differ.
C1_Witness ==
    /\ pc = "tokenized"
    /\ Len(sentence_pairs) = 3
    /\ KeptPositions = {1, 3}
    /\ Len(tokenized_sentence_pairs) = 2
    /\ tokenized_sentence_pairs[1] # tokenized_sentence_pairs[2]

\* C2: in every pair of the output, source_tokens lists the source_dict
\* indices of the source tokens that are keys of source_dict, one per
\* occurrence and in the order of the sentence; a token that is no key leaves
\* nothing behind.  The same for target_tokens and target_dict.
C2_IndicesOfKnownTokens ==
    (pc = "tokenized" /\ Len(tokenized_sentence_pairs) <= Cardinality(KeptPositions)) =>
        \A m \in 1..Len(tokenized_sentence_pairs) :
            LET pair == sentence_pairs[NthKept(m)]
                out == tokenized_sentence_pairs[m]
                ks == Known(pair.source, source_dict)
                kt == Known(pair.target, target_dict)
            IN  /\ Len(out.source_tokens) = Len(ks)
                /\ Len(out.target_tokens) = Len(kt)
                /\ \A q \in 1..Len(ks) : out.source_tokens[q] = source_dict[ks[q]]
                /\ \A q \in 1..Len(kt) : out.target_tokens[q] = target_dict[kt[q]]

\* A source side of three tokens whose middle token is unknown and whose
\* outer tokens are the same known token.
C2_Witness ==
    /\ pc = "tokenized"
    /\ \E m \in 1..Len(tokenized_sentence_pairs) :
        LET pair == sentence_pairs[NthKept(m)]
        IN  /\ Len(pair.source) = 3
            /\ pair.source[1] = pair.source[3]
            /\ pair.source[2] \notin DOMAIN source_dict
            /\ pair.source[1] \in DOMAIN source_dict
            /\ source_dict[pair.source[1]] = 1
            /\ tokenized_sentence_pairs[m].source_tokens = <<1, 1>>

(***************************************************************************)
(* Properties of get_token_to_index (checked under SpecVocab).             *)
(***************************************************************************)
FirstPos(tokens, t) ==
    CHOOSE k \in 1..Len(tokens) :
        tokens[k] = t /\ \A j \in 1..(k - 1) : tokens[j] # t

Injective(d) == \A t, u \in DOMAIN d : d[t] = d[u] => t = u

DenseFromZero(d) == {d[t] : t \in DOMAIN d} = 0..(Cardinality(DOMAIN d) - 1)

ExpectedSize(tokens) ==
    IF freq_cutoff.given
    THEN Min(freq_cutoff.n, Cardinality(Range(tokens)))
    ELSE Cardinality(Range(tokens))

VocabularyShape(d, tokens) ==
    /\ Injective(d)
    /\ DenseFromZero(d)
    /\ Cardinality(DOMAIN d) = ExpectedSize(tokens)
    /\ freq_cutoff.given => Cardinality(DOMAIN d) <= freq_cutoff.n
    /\ tokens = <<>> => d = EmptyDict

\* C3: each map of get_token_to_index is injective, its indices are exactly
\* 0..size-1, and size is min(freq_cutoff, number of distinct tokens) with a
\* cutoff and the number of distinct tokens without; an empty corpus gives
\* two empty maps.
C3_DenseInjectiveIndices ==
    pc = "vocab" =>
        /\ VocabularyShape(source_dict, SourceTokens(sentence_pairs))
        /\ VocabularyShape(target_dict, TargetTokens(sentence_pairs))

\* The cutoff removes a token of the source side and none of the target side.
C3_Witness ==
    /\ pc = "vocab"
    /\ freq_cutoff.given
    /\ Cardinality(DOMAIN source_dict) = freq_cutoff.n
    /\ Cardinality(Range(SourceTokens(sentence_pairs))) > freq_cutoff.n
    /\ Cardinality(DOMAIN target_dict) = 1
    /\ Cardinality(DOMAIN target_dict) < freq_cutoff.n

DescendingFrequency(d, tokens) ==
    /\ DOMAIN d \subseteq Range(tokens)
    /\ \A t, u \in DOMAIN d : d[t] < d[u] => Counted(tokens, t) >= Counted(tokens, u)
    /\ \A t \in DOMAIN d : \A u \in Range(tokens) \ DOMAIN d :
            Counted(tokens, t) >= Counted(tokens, u)

\* C4: in each map a smaller index never goes with a smaller count, counts
\* being taken on that language's side only, and no token left out by the
\* cutoff is more frequent than a token that is kept.
C4_DescendingFrequency ==
    pc = "vocab" =>
        /\ DescendingFrequency(source_dict, SourceTokens(sentence_pairs))
        /\ DescendingFrequency(target_dict, TargetTokens(sentence_pairs))

\* The most frequent source token is not the first one met, a rarer source
\* token is cut, and that token stays in the map of the target side.
C4_Witness ==
    /\ pc = "vocab"
    /\ freq_cutoff.given
    /\ LET tokens == SourceTokens(sentence_pairs)
       IN  /\ \E t \in DOMAIN source_dict :
                /\ source_dict[t] = 0
                /\ FirstPos(tokens, t) > 1
                /\ Counted(tokens, t) > Counted(tokens, tokens[1])
           /\ (Range(tokens) \ DOMAIN source_dict) \cap DOMAIN target_dict # {}

\* Number of tokens that come before t: the more frequent ones, and among
\* the equally frequent ones those met earlier.
Rank(tokens, t) ==
    Cardinality({u \in Range(tokens) :
        \/ Counted(tokens, u) > Counted(tokens, t)
        \/ /\ Counted(tokens, u) = Counted(tokens, t)
           /\ FirstPos(tokens, u) < FirstPos(tokens, t)})

FixedByInput(d, tokens) ==
    /\ \A t, u \in DOMAIN d :
            Counted(tokens, t) = Counted(tokens, u) =>
                (d[t] < d[u] <=> FirstPos(tokens, t) < FirstPos(tokens, u))
    /\ \A t \in DOMAIN d : \A u \in Range(tokens) \ DOMAIN d :
            Counted(tokens, t) = Counted(tokens, u) =>
                FirstPos(tokens, t) < FirstPos(tokens, u)
    /\ \A t \in DOMAIN d : d[t] = Rank(tokens, t)
    /\ DOMAIN d = {t \in Range(tokens) :
                      freq_cutoff.given => Rank(tokens, t) < freq_cutoff.n}

\* C10: the maps are fixed by the corpus and the cutoff: tokens of equal count
\* are indexed in the order of their first occurrence on that side, the
\* earlier ones are kept when the cutoff falls inside a tie, and so the index
\* of a token is the number of tokens that are more frequent or equally
\* frequent and met earlier.
C10_TiesByFirstOccurrence ==
    pc = "vocab" =>
        /\ FixedByInput(source_dict, SourceTokens(sentence_pairs))
        /\ FixedByInput(target_dict, TargetTokens(sentence_pairs))

\* Three source tokens of equal count, met in an order that is not the
\* alphabetical one, and a cutoff that keeps two of them.
C10_Witness ==
    /\ pc = "vocab"
    /\ freq_cutoff = [given |-> TRUE, n |-> 2]
    /\ SourceTokens(sentence_pairs) = <<"c", "a", "b">>
    /\ source_dict = ("c" :> 0) @@ ("a" :> 1)

(***************************************************************************)
(* Properties of extract_sentences (checked under SpecReader).             *)
(***************************************************************************)
EmptyOrMissing(fld) == (~fld.present) \/ fld.raw = <<>>

\* The whitespace-separated tokens written in a field of the file.
WrittenTokens(fld) == IF fld.present THEN Split(fld.raw) ELSE <<>>

\* The tuples of the pair tokens written in an alignment field.
WrittenTuples(fld) ==
    LET toks == WrittenTokens(fld)
    IN  [q \in 1..Len(toks) |-> ParsePair(toks[q]).tuple]

\* C5: a text field that is missing, or present and empty, gives an empty
\* side of the sentence pair and no failure; a missing or empty alignment
\* field gives an empty alignment list.
C5_EmptyFieldsGiveEmptySequences ==
    /\ (pc = "error" /\ err = "AttributeError") =>
            ~(EmptyOrMissing(file[i + 1].english) \/ EmptyOrMissing(file[i + 1].czech))
    /\ \A k \in 1..Len(sentence_pairs) :
        /\ EmptyOrMissing(file[k].english) => sentence_pairs[k].source = <<>>
        /\ EmptyOrMissing(file[k].czech) => sentence_pairs[k].target = <<>>
        /\ EmptyOrMissing(file[k].sure) => alignments[k].sure = <<>>
        /\ EmptyOrMissing(file[k].possible) => alignments[k].possible = <<>>

\* A pair token has the form "<int>-<int>".
IsPairToken(tok) ==
    LET parts == SplitHyphen(tok)
    IN  Len(parts) = 2 /\ ParseInt(parts[1]).ok /\ ParseInt(parts[2]).ok

AllPairTokens(fld) ==
    \A q \in 1..Len(WrittenTokens(fld)) : IsPairToken(WrittenTokens(fld)[q])

\* C6: extract_sentences returns only when every pair token of every sure
\* and possible field has the form "<int>-<int>"; any other token makes it
\* fail and nothing is returned.
C6_MalformedPairTokenFails ==
    pc = "returned" =>
        \A k \in 1..Len(file) :
            AllPairTokens(file[k].sure) /\ AllPairTokens(file[k].possible)

\* The text a field denotes when only the ampersands that start no escape
\* sequence are escaped: a reference stands for its character and a bare
\* ampersand for itself.
RECURSIVE Denoted(_)
Denoted(s) ==
    IF s = <<>> THEN <<>>
    ELSE IF Head(s) = "&" /\ EntityAt(s) # {}
    THEN LET e == CHOOSE x \in EntityAt(s) : TRUE
         IN  <<e.char>> \o Denoted(SubSeq(s, Len(e.name) + 3, Len(s)))
    ELSE <<Head(s)>> \o Denoted(Tail(s))

\* C7: the tokens of a text field are those of the text it denotes: a bare
\* ampersand is read as "&", and an escape sequence already in the file is
\* read as the character it stands for, not as its own text.
C7_EscapeSequencesLeftAsIs ==
    pc = "returned" =>
        \A k \in 1..Len(file) :
            /\ file[k].english.present =>
                    sentence_pairs[k].source = Split(Denoted(file[k].english.raw))
            /\ file[k].czech.present =>
                    sentence_pairs[k].target = Split(Denoted(file[k].czech.raw))

TuplesOf(al) == Range(al.sure) \cup Range(al.possible)

\* C9: every tuple read from a pair token "i-j" has both positions >= 1.
C9_PositionsFromOne ==
    pc = "returned" =>
        \A k \in 1..Len(alignments) : \A t \in TuplesOf(alignments[k]) :
            Len(t) = 2 => (t[1] >= 1 /\ t[2] >= 1)

====
